---- MODULE Spec2Model ----
(***************************************************************************)
(* A model of DCtype.h: the type-to-enum registry of namespace DC.         *)
(*                                                                         *)
(*   TypeKey / key strategies  ->  keyOfStatic, keyOfDynamic               *)
(*   DomainId::make            ->  DomainId_make (hash combine, HashBits)  *)
(*   MutableBuilder, FrozenMap ->  operators on sequences of entries       *)
(*   DomainStorage             ->  records [frozen_, queried_, builder_,   *)
(*                                 frozen_map_, mu_]                        *)
(*   Registry                  ->  domains_ (id value -> handle), rmu      *)
(*                                                                         *)
(* Spec        : every call runs to completion (single-threaded use).      *)
(* SpecFallback: Spec's calls on one domain plus the configured fallback.  *)
(* SpecCollide : Spec's calls on two triples with equal DomainId.          *)
(* SpecPair    : Spec's calls on two triples with distinct DomainIds.      *)
(* SpecAnchor  : Spec's calls on a domain with AnchorKeyStrategy.           *)
(* SpecMT      : threads interleave at the granularity of lock, read and   *)
(*               write steps.                                               *)
(* SpecMTFair  : SpecMT with every thread scheduled fairly.                *)
(***************************************************************************)
EXTENDS Integers, Sequences, FiniteSets, TLC

VARIABLES
    domains_,    \* Registry::domains_ : id value -> [type, hid, storage]
    rmu,         \* Registry::mu_ : owning thread, 0 when free
    nextHandle,  \* number of DomainHandle objects allocated so far
    fallback,    \* configured per-domain fallback (id value -> value or NoVal)
    crashed,     \* the process was aborted by undefined behaviour
    last,        \* the last completed call and what it returned
    reg,         \* history: last value registered with success, per triple and type
    th,          \* threads of SpecMT: program counter and locals
    started,     \* calls the threads of SpecMT have started
    raced        \* history: two registerType calls contended for one mu_

vars == <<domains_, rmu, nextHandle, fallback, crashed, last, reg, th, started, raced>>

---------------------------------------------------------------------------
(* Bounds *)

\* std::size_t / std::uintptr_t are modelled HashBits wide
HashBits == 8

\* the enumerations have the values 0 .. MaxEnum; 0 is Enum{}
MaxEnum == 2

\* threads of SpecMT
NumThreads == 2

\* calls the threads of SpecMT may start, all together
MaxCalls == 4

---------------------------------------------------------------------------
(* Types of the program under classification *)

\* the low 16 bits of 0x9e3779b97f4a7c15
GoldenLow == 31765

HashMod == 2 ^ HashBits

Golden == GoldenLow % HashMod

NoVal == 0 - 1

EnumValues == 0 .. MaxEnum

\* Enum{} : the value-initialised enumeration
EnumDefault == 0

\* concrete types derived from Shape
Types == {"Circle", "Square", "Triangle"}

\* the smaller sets of types the calls of SpecFallback, SpecCollide and SpecMT use
FewTypes == {"Circle", "Square"}

OneType == {"Circle"}

\* std::type_index(typeid(X)).hash_code() of the types the model uses
TypeHash ==
    [t \in {"Shape", "Circle", "Square", "Triangle", "EnumA", "EnumB", "EnumC",
            "RTTIKeyStrategy", "AnchorKeyStrategy"} |->
        CASE t = "Shape" -> 17
          [] t = "Circle" -> 53
          [] t = "Square" -> 21
          [] t = "Triangle" -> 38
          [] t = "EnumA" -> 9
          [] t = "EnumB" -> 40
          [] t = "EnumC" -> 94
          [] t = "RTTIKeyStrategy" -> 29
          [] t = "AnchorKeyStrategy" -> 71]

\* the address of the function-local static `anchor` of keyOfStatic<T>
AnchorAddr ==
    [t \in {"Shape", "Circle", "Square", "Triangle"} |->
        CASE t = "Shape" -> 160
          [] t = "Circle" -> 164
          [] t = "Square" -> 168
          [] t = "Triangle" -> 172]

\* Shape has a virtual destructor, so typeid(obj) yields the dynamic type
Polymorphic == [b \in {"Shape"} |-> TRUE]

\* std::is_base_of_v<IAnchorProvider, Base>
IsAnchorProvider == [b \in {"Shape"} |-> FALSE]

\* an object seen through a Base reference: its concrete type and what its
\* getTypeAnchor() override returns
Obj(T) == [dyn |-> T, anchor |-> AnchorAddr[T]]

keyOfStatic(strat, T) ==
    IF strat = "RTTIKeyStrategy" THEN TypeHash[T] ELSE AnchorAddr[T]

keyOfDynamic(strat, base, obj) ==
    IF strat = "RTTIKeyStrategy"
    THEN (IF Polymorphic[base] THEN TypeHash[obj.dyn] ELSE TypeHash[base])
    ELSE (IF IsAnchorProvider[base] THEN obj.anchor ELSE keyOfStatic(strat, base))

---------------------------------------------------------------------------
(* DomainId::make *)

RECURSIVE BitXor(_, _, _)
BitXor(a, b, n) ==
    IF n = 0 THEN 0
    ELSE (((a % 2) + (b % 2)) % 2) + (2 * BitXor(a \div 2, b \div 2, n - 1))

Xor(a, b) == BitXor(a, b, HashBits)

Shl(x, n) == (x * (2 ^ n)) % HashMod

Shr(x, n) == x \div (2 ^ n)

\* seed ^= h + 0x9e3779b97f4a7c15ULL + (seed << 6) + (seed >> 2)
HashCombine(seed, h) ==
    Xor(seed, (h + Golden + Shl(seed, 6) + Shr(seed, 2)) % HashMod)

DomainKey(b, e, s) == [base |-> b, enum |-> e, strat |-> s]

DomainId_make(k) ==
    HashCombine(HashCombine(TypeHash[k.base] % HashMod, TypeHash[k.enum] % HashMod),
                TypeHash[k.strat] % HashMod)

KA == DomainKey("Shape", "EnumA", "RTTIKeyStrategy")

KB == DomainKey("Shape", "EnumB", "RTTIKeyStrategy")

KC == DomainKey("Shape", "EnumC", "RTTIKeyStrategy")

KD == DomainKey("Shape", "EnumA", "AnchorKeyStrategy")

NoKey == DomainKey("", "", "")

\* the triples each specification instantiates the templates with
MainKeys == {KA}

FallbackKeys == {KA}

CollideKeys == {KA, KC}

AnchorKeys == {KD}

PairKeys == {KA, KB}

AllKeys == {KA, KB, KC, KD}

\* DomainId::make<Base, Enum, KeyStrat>().value of every triple, computed once
DomainIds == [k \in AllKeys |-> DomainId_make(k)]

IdOf(k) == DomainIds[k]

---------------------------------------------------------------------------
(* MutableBuilder and FrozenMap : sequences of [key, val] *)

Entry(k, v) == [key |-> k, val |-> v]

\* std::find_if : the first index whose key is k, Len + 1 for end()
RECURSIVE FindFrom(_, _, _)
FindFrom(entries, k, i) ==
    IF i > Len(entries) THEN i
    ELSE IF entries[i].key = k THEN i
    ELSE FindFrom(entries, k, i + 1)

FindIf(entries, k) == FindFrom(entries, k, 1)

\* the write without the overwrite branch: always emplace_back
InsertAt_AlwaysAppend(entries, it, k, v) == Append(entries, Entry(k, v))

\* the write of MutableBuilder::insert at the position find_if returned
InsertAt(entries, it, k, v) ==
    IF it <= Len(entries)
    THEN [entries EXCEPT ![it].val = v]
    ELSE Append(entries, Entry(k, v))

InsertDiag(entries, it) == IF it <= Len(entries) THEN {"duplicate"} ELSE {}

MutableBuilder_insert(entries, k, v) ==
    LET it == FindIf(entries, k)
    IN  [entries |-> InsertAt(entries, it, k, v),
         ret |-> TRUE,
         diag |-> InsertDiag(entries, it)]

MutableBuilder_getOr(entries, fb, key) ==
    LET it == FindIf(entries, key)
    IN  IF it = Len(entries) + 1 THEN fb ELSE entries[it].val

\* the sort with the comparison turned round (a.first.value > b.first.value)
RECURSIVE SortedInsert_Descending(_, _)
SortedInsert_Descending(sorted, e) ==
    IF sorted = <<>> THEN <<e>>
    ELSE IF e.key > sorted[Len(sorted)].key
         THEN Append(SortedInsert_Descending(SubSeq(sorted, 1, Len(sorted) - 1), e),
                     sorted[Len(sorted)])
         ELSE Append(sorted, e)

\* std::sort with a.first.value < b.first.value (insertion sort: the ranges
\* here are below the introsort threshold)
RECURSIVE SortedInsert(_, _)
SortedInsert(sorted, e) ==
    IF sorted = <<>> THEN <<e>>
    ELSE IF e.key < sorted[Len(sorted)].key
         THEN Append(SortedInsert(SubSeq(sorted, 1, Len(sorted) - 1), e),
                     sorted[Len(sorted)])
         ELSE Append(sorted, e)

RECURSIVE SortEntries(_)
SortEntries(data) ==
    IF data = <<>> THEN <<>>
    ELSE SortedInsert(SortEntries(SubSeq(data, 1, Len(data) - 1)), data[Len(data)])

\* the entries moved in without the std::sort
FrozenMap_from_Unsorted(data) == data

FrozenMap_from(data) == SortEntries(data)

\* the search with the comparison of std::upper_bound
RECURSIVE LowerBound_Upper(_, _, _, _)
LowerBound_Upper(entries, key, first, count) ==
    IF count <= 0 THEN first
    ELSE LET step == count \div 2
             mid == first + step
         IN  IF entries[mid].key <= key
             THEN LowerBound_Upper(entries, key, mid + 1, count - (step + 1))
             ELSE LowerBound_Upper(entries, key, first, step)

\* std::lower_bound over [first, first + count) : halve the range while
\* entries[mid].key < key
RECURSIVE LowerBound(_, _, _, _)
LowerBound(entries, key, first, count) ==
    IF count <= 0 THEN first
    ELSE LET step == count \div 2
             mid == first + step
         IN  IF entries[mid].key < key
             THEN LowerBound(entries, key, mid + 1, count - (step + 1))
             ELSE LowerBound(entries, key, first, step)

FrozenMap_getOr(entries, fb, key) ==
    IF entries = <<>> THEN fb
    ELSE LET it == LowerBound(entries, key, 1, Len(entries))
         IN  IF it <= Len(entries) /\ entries[it].key = key
             THEN entries[it].val
             ELSE fb

\* MutableBuilder::freeze : the entries are moved out of the builder
MutableBuilder_freeze(entries) == FrozenMap_from(entries)

---------------------------------------------------------------------------
(* DomainStorage *)

NewStorage ==
    [frozen_ |-> FALSE, queried_ |-> FALSE, builder_ |-> <<>>,
     frozen_map_ |-> <<>>, mu_ |-> 0]

DomainStorage_registerType(s, strat, T, v) ==
    LET key == keyOfStatic(strat, T)
    IN  IF s.frozen_
        THEN [s |-> s, ret |-> FALSE, diag |-> {}]
        ELSE LET r == MutableBuilder_insert(s.builder_, key, v)
             IN  [s |-> [s EXCEPT !.builder_ = r.entries],
                  ret |-> r.ret, diag |-> r.diag]

\* freeze without `if (frozen_) return` : the moved-from builder is frozen again
DomainStorage_freeze_NoGuard(s) ==
    [s |-> [s EXCEPT !.frozen_map_ = MutableBuilder_freeze(s.builder_),
                     !.builder_ = <<>>,
                     !.frozen_ = TRUE],
     diag |-> IF s.queried_ THEN {"freezeAfterQuery"} ELSE {}]

\* freeze that flips the phase flag instead of setting it
DomainStorage_freeze_Toggle(s) ==
    [s |-> [s EXCEPT !.frozen_map_ = MutableBuilder_freeze(s.builder_ \o s.frozen_map_),
                     !.builder_ = <<>>,
                     !.frozen_ = ~s.frozen_],
     diag |-> IF s.queried_ THEN {"freezeAfterQuery"} ELSE {}]

\* freeze with the diagnostic of line 228 ahead of the check of line 227
DomainStorage_freeze_DiagFirst(s) ==
    IF s.frozen_
    THEN [s |-> s, diag |-> IF s.queried_ THEN {"freezeAfterQuery"} ELSE {}]
    ELSE [s |-> [s EXCEPT !.frozen_map_ = MutableBuilder_freeze(s.builder_),
                          !.builder_ = <<>>,
                          !.frozen_ = TRUE],
          diag |-> IF s.queried_ THEN {"freezeAfterQuery"} ELSE {}]

DomainStorage_freeze(s) ==
    IF s.frozen_
    THEN [s |-> s, diag |-> {}]
    ELSE [s |-> [s EXCEPT !.frozen_map_ = MutableBuilder_freeze(s.builder_),
                          !.builder_ = <<>>,
                          !.frozen_ = TRUE],
          diag |-> IF s.queried_ THEN {"freezeAfterQuery"} ELSE {}]

\* the miss test against Enum{} instead of the fallback argument
MissDiag_AgainstDefault(v, fb) == IF v = EnumDefault THEN {"miss"} ELSE {}

\* if (v == fallback) Diagnostics::onMiss(...)
MissDiag(v, fb) == IF v = fb THEN {"miss"} ELSE {}

\* a building-branch lookup that stores the fallback for a token it misses
DomainStorage_queryOr_InsertOnMiss(s, strat, base, fb, obj) ==
    LET key == keyOfDynamic(strat, base, obj)
    IN  IF s.frozen_
        THEN LET v == FrozenMap_getOr(s.frozen_map_, fb, key)
             IN  [s |-> s, ret |-> v, diag |-> MissDiag(v, fb)]
        ELSE LET v == MutableBuilder_getOr(s.builder_, fb, key)
                 it == FindIf(s.builder_, key)
             IN  [s |-> [s EXCEPT !.queried_ = TRUE,
                                  !.builder_ = InsertAt(s.builder_, it, key, v)],
                  ret |-> v, diag |-> MissDiag(v, fb)]

DomainStorage_queryOr(s, strat, base, fb, obj) ==
    LET key == keyOfDynamic(strat, base, obj)
    IN  IF s.frozen_
        THEN LET v == FrozenMap_getOr(s.frozen_map_, fb, key)
             IN  [s |-> s, ret |-> v, diag |-> MissDiag(v, fb)]
        ELSE LET v == MutableBuilder_getOr(s.builder_, fb, key)
             IN  [s |-> [s EXCEPT !.queried_ = TRUE],
                  ret |-> v, diag |-> MissDiag(v, fb)]

---------------------------------------------------------------------------
(* Registry *)

\* DomainHandle<Base, Enum, KeyStrat> : the instantiation that created it, the
\* identity of the object, its storage
NewHandle(k, hid) == [type |-> k, hid |-> hid, storage |-> NewStorage]

\* domains_.find(id.value) != domains_.end()
Found(doms, k) == IdOf(k) \in DOMAIN doms

\* Registry::domain<Base, Enum, KeyStrat>() : the map and the allocation count
\* after the call
Registry_domain(doms, nh, k) ==
    LET id == IdOf(k)
    IN  IF ~Found(doms, k)
        THEN [doms |-> (id :> NewHandle(k, nh + 1)) @@ doms, next |-> nh + 1]
        ELSE [doms |-> doms, next |-> nh]

\* the static_cast of line 308 names a class the handle is not an object of
Mistyped(doms, k) == Found(doms, k) /\ doms[IdOf(k)].type # k

Registry_freezeAll(doms) ==
    [id \in DOMAIN doms |->
        [doms[id] EXCEPT !.storage = DomainStorage_freeze(@).s]]

FreezeAllDiag(doms) ==
    UNION {DomainStorage_freeze(doms[id].storage).diag : id \in DOMAIN doms}

\* the storage a caller instantiated with k reaches through Registry::domain
StorageOf(doms, k) == doms[IdOf(k)].storage

---------------------------------------------------------------------------
(* Calls that run to completion *)

Threads == 1 .. NumThreads

\* a thread: where it is in its call (pc), the call and its arguments, the
\* handle Registry::domain gave it (h), the iterator of insert (it; in a query
\* what the read of frozen_ gave: 0 Building, 1 Frozen, 2 Frozen read while
\* freeze() was writing), the value it returns, and the domains freezeAll
\* still has to visit
IdleThread ==
    [pc |-> "idle", op |-> "none", key |-> NoKey, type |-> "", arg |-> NoVal,
     h |-> 0, it |-> 0, ret |-> NoVal, todo |-> {}]

\* a completed call: its arguments, what the caller got back, the diagnostics
\* it emitted, and `prev`, what held just before it (the phase of the domain
\* as 0/1, or for a registration the value registered before)
NoCall ==
    [op |-> "none", key |-> NoKey, type |-> "", arg |-> NoVal, prev |-> NoVal,
     ret |-> NoVal, diag |-> {}]

Done(op, k, T, arg, prev, ret, diag) ==
    [op |-> op, key |-> k, type |-> T, arg |-> arg, prev |-> prev, ret |-> ret,
     diag |-> diag]

\* the domain of k exists and is Frozen
IsFrozen(doms, k) == Found(doms, k) /\ StorageOf(doms, k).frozen_

BoolRet(b) == IF b THEN 1 ELSE 0

NoReg == [k \in AllKeys |-> [T \in Types |-> NoVal]]

Init ==
    /\ domains_ = <<>>
    /\ rmu = 0
    /\ nextHandle = 0
    /\ fallback = [k \in AllKeys |-> NoVal]
    /\ crashed = FALSE
    /\ last = NoCall
    /\ reg = NoReg
    /\ th = [t \in Threads |-> IdleThread]
    /\ started = 0
    /\ raced = FALSE

\* Registry::instance().domain<Base, Enum, KeyStrat>()
GetDomain(k) ==
    /\ ~crashed
    /\ LET d == Registry_domain(domains_, nextHandle, k)
       IN  /\ domains_' = d.doms
           /\ nextHandle' = d.next
           /\ last' = Done("domain", k, "", NoVal, BoolRet(Found(domains_, k)),
                        d.doms[IdOf(k)].hid, {})
    /\ UNCHANGED <<rmu, fallback, crashed, reg, th, started, raced>>

\* DC::registerType<Base, Enum, Derived, KeyStrat>(value) : returns void
DC_registerType(k, T, v) ==
    /\ ~crashed
    /\ LET d == Registry_domain(domains_, nextHandle, k)
           id == IdOf(k)
           r == DomainStorage_registerType(d.doms[id].storage, k.strat, T, v)
       IN  /\ domains_' = [d.doms EXCEPT ![id].storage = r.s]
           /\ nextHandle' = d.next
           /\ last' = Done("DC_registerType", k, T, v, reg[k][T], NoVal, r.diag)
           /\ reg' = IF r.ret THEN [reg EXCEPT ![k][T] = v] ELSE reg
    /\ UNCHANGED <<rmu, fallback, crashed, th, started, raced>>

\* h.storage().registerType<Derived>(value) on a handle obtained earlier
Storage_registerType(k, T, v) ==
    /\ ~crashed
    /\ Found(domains_, k)
    /\ LET id == IdOf(k)
           r == DomainStorage_registerType(domains_[id].storage, k.strat, T, v)
       IN  /\ domains_' = [domains_ EXCEPT ![id].storage = r.s]
           /\ last' = Done("registerType", k, T, v, reg[k][T], BoolRet(r.ret), r.diag)
           /\ reg' = IF r.ret THEN [reg EXCEPT ![k][T] = v] ELSE reg
    /\ UNCHANGED <<rmu, nextHandle, fallback, crashed, th, started, raced>>

\* DomainHandle::freeze() / DomainStorage::freeze() on a handle obtained earlier
Storage_freeze(k) ==
    /\ ~crashed
    /\ Found(domains_, k)
    /\ LET id == IdOf(k)
           r == DomainStorage_freeze(domains_[id].storage)
       IN  /\ domains_' = [domains_ EXCEPT ![id].storage = r.s]
           /\ last' = Done("freeze", k, "", NoVal, BoolRet(IsFrozen(domains_, k)), NoVal,
                        r.diag)
    /\ UNCHANGED <<rmu, nextHandle, fallback, crashed, reg, th, started, raced>>

\* DC::freezeAllDomains() / Registry::freezeAll()
FreezeAll ==
    /\ ~crashed
    /\ domains_' = Registry_freezeAll(domains_)
    /\ last' = Done("freezeAll", NoKey, "", NoVal,
                    BoolRet(\A k \in AllKeys : Found(domains_, k) => IsFrozen(domains_, k)),
                    NoVal, FreezeAllDiag(domains_))
    /\ UNCHANGED <<rmu, nextHandle, fallback, crashed, reg, th, started, raced>>

\* DC::getTypeOr<Base, Enum, KeyStrat>(obj, fallback)
DC_getTypeOr(k, T, fb) ==
    /\ ~crashed
    /\ LET d == Registry_domain(domains_, nextHandle, k)
           id == IdOf(k)
           r == DomainStorage_queryOr(d.doms[id].storage, k.strat, k.base, fb, Obj(T))
       IN  /\ domains_' = [d.doms EXCEPT ![id].storage = r.s]
           /\ nextHandle' = d.next
           /\ last' = Done("getTypeOr", k, T, fb, BoolRet(IsFrozen(domains_, k)), r.ret,
                        r.diag)
    /\ UNCHANGED <<rmu, fallback, crashed, reg, th, started, raced>>

\* DC::getType<Base, Enum, KeyStrat>(obj) : getTypeOr with Enum{}
DC_getType(k, T) ==
    /\ ~crashed
    /\ LET d == Registry_domain(domains_, nextHandle, k)
           id == IdOf(k)
           r == DomainStorage_queryOr(d.doms[id].storage, k.strat, k.base,
                                      EnumDefault, Obj(T))
       IN  /\ domains_' = [d.doms EXCEPT ![id].storage = r.s]
           /\ nextHandle' = d.next
           /\ last' = Done("getType", k, T, NoVal, BoolRet(IsFrozen(domains_, k)), r.ret,
                        r.diag)
    /\ UNCHANGED <<rmu, fallback, crashed, reg, th, started, raced>>

\* the calls on the triples K, registering the types RT, querying objects of
\* the types QT
Calls(K, RT, QT) ==
    \/ \E k \in K : GetDomain(k)
    \/ \E k \in K, T \in RT, v \in EnumValues : DC_registerType(k, T, v)
    \/ \E k \in K, T \in RT, v \in EnumValues : Storage_registerType(k, T, v)
    \/ \E k \in K : Storage_freeze(k)
    \/ FreezeAll
    \/ \E k \in K, T \in QT, fb \in EnumValues : DC_getTypeOr(k, T, fb)
    \/ \E k \in K, T \in QT : DC_getType(k, T)

Next == Calls(MainKeys, Types, Types)

Spec == Init /\ [][Next]_vars

---------------------------------------------------------------------------
(* The configured domain fallback *)

\* DC::setFallback<Enum>(value) : stores the domain's fallback while the domain
\* is Building; ignored once it is Frozen
DC_setFallback(k, v) ==
    /\ ~crashed
    /\ LET d == Registry_domain(domains_, nextHandle, k)
       IN  /\ domains_' = d.doms
           /\ nextHandle' = d.next
           /\ fallback' = IF IsFrozen(domains_, k) THEN fallback
                          ELSE [fallback EXCEPT ![k] = v]
           /\ last' = Done("setFallback", k, "", v, BoolRet(IsFrozen(domains_, k)),
                           NoVal, {})
    /\ UNCHANGED <<rmu, crashed, reg, th, started, raced>>

\* DC::tryGetType<Enum, T>() : the value registered for T when the domain has
\* an entry for it, no value (NoVal) when it has none; the entry is looked up
\* as the queries look it up, in the frozen map or, the domain Building, in
\* the builder under the mutex with the queried flag set
DC_tryGetType(k, T) ==
    /\ ~crashed
    /\ LET d == Registry_domain(domains_, nextHandle, k)
           id == IdOf(k)
           s == d.doms[id].storage
           key == keyOfStatic(k.strat, T)
           fit == LowerBound(s.frozen_map_, key, 1, Len(s.frozen_map_))
           bit == FindIf(s.builder_, key)
           v == IF s.frozen_
                THEN (IF fit <= Len(s.frozen_map_) /\ s.frozen_map_[fit].key = key
                      THEN s.frozen_map_[fit].val ELSE NoVal)
                ELSE (IF bit <= Len(s.builder_) THEN s.builder_[bit].val ELSE NoVal)
       IN  /\ domains_' = [d.doms EXCEPT ![id].storage.queried_ = (@ \/ ~s.frozen_)]
           /\ nextHandle' = d.next
           /\ last' = Done("tryGetType", k, T, NoVal, BoolRet(IsFrozen(domains_, k)), v, {})
    /\ UNCHANGED <<rmu, fallback, crashed, reg, th, started, raced>>

NextFallback ==
    \/ Calls(FallbackKeys, FewTypes, Types)
    \/ \E k \in FallbackKeys, v \in EnumValues : DC_setFallback(k, v)
    \/ \E k \in FallbackKeys, T \in Types : DC_tryGetType(k, T)

SpecFallback == Init /\ [][NextFallback]_vars

---------------------------------------------------------------------------
(* Two triples with one DomainId *)

\* Registry::domain<k>() found the handle another instantiation created: the
\* static_cast of line 308 is undefined.  The build either goes on with the
\* handle as if it were a DomainHandle<k> (the calls above: both classes have
\* one layout) or stops the process (this step).
UBAbort(k) ==
    /\ ~crashed
    /\ Mistyped(domains_, k)
    /\ crashed' = TRUE
    /\ last' = Done("abort", k, "", NoVal, NoVal, NoVal, {})
    /\ UNCHANGED <<domains_, rmu, nextHandle, fallback, reg, th, started, raced>>

NextCollide ==
    \/ Calls(CollideKeys, OneType, FewTypes)
    \/ \E k \in CollideKeys : UBAbort(k)

SpecCollide == Init /\ [][NextCollide]_vars

---------------------------------------------------------------------------
(* Two domains over one base *)

NextPair == Calls(PairKeys, OneType, FewTypes)

SpecPair == Init /\ [][NextPair]_vars

---------------------------------------------------------------------------
(* A domain with AnchorKeyStrategy *)

NextAnchor == Calls(AnchorKeys, FewTypes, Types)

SpecAnchor == Init /\ [][NextAnchor]_vars

---------------------------------------------------------------------------
(* Threads : the calls as sequences of lock, read and write steps *)

MTKeys == {KA, KB}

\* std::scoped_lock lk(mu_) of Registry can be taken
RegistryFree_NoExclusion(m) == TRUE

RegistryFree(m) == m = 0

\* std::scoped_lock lk(mu_) of DomainStorage can be taken
CanLock_NoExclusion(s) == TRUE

CanLock(s) == s.mu_ = 0

Enter(t, op, k, T, arg, pc) ==
    [th EXCEPT ![t] = [@ EXCEPT !.pc = pc, !.op = op, !.key = k, !.type = T,
                                !.arg = arg]]

Goto(t, pc) == [th EXCEPT ![t].pc = pc]

\* a freezeAll that returns after the first domain of its loop
AfterFreeze_FirstOnly(t) == "return"

\* where a finished freeze() goes on: back into the loop of freezeAll, or out
AfterFreeze(t) == IF th[t].op = "freezeAll" THEN "fa_next" ELSE "return"

SetStorage(id, s) == [domains_ EXCEPT ![id].storage = s]

\* the step after Registry::domain returned the handle: the caller's own call
AfterDomain(op) ==
    CASE op = "registerType" -> "reg_lock"
      [] op = "freeze" -> "frz_lock"
      [] op = "queryOr" -> "q_read"
      [] OTHER -> "return"

\* a thread starts Registry::instance().domain<k>() alone, DC::registerType,
\* domain<k>().freeze(), Registry::freezeAll or DC::getType
MT_Call(t) ==
    /\ ~crashed
    /\ th[t].pc = "idle"
    /\ started < MaxCalls
    /\ started' = started + 1
    /\ \/ \E k \in MTKeys : th' = Enter(t, "domain", k, "", NoVal, "dom_lock")
       \/ \E k \in MainKeys, T \in FewTypes, v \in EnumValues \ {EnumDefault} :
             th' = Enter(t, "registerType", k, T, v, "dom_lock")
       \/ \E k \in MTKeys : th' = Enter(t, "freeze", k, "", NoVal, "dom_lock")
       \/ th' = Enter(t, "freezeAll", NoKey, "", NoVal, "fa_lock")
       \/ \E k \in MainKeys, T \in FewTypes :
             th' = Enter(t, "queryOr", k, T, EnumDefault, "dom_lock")
    /\ UNCHANGED <<domains_, rmu, nextHandle, fallback, crashed, last, reg, raced>>

\* Registry::domain : lines 300-302, 308-309
MT_DomFind(t) ==
    /\ ~crashed
    /\ th[t].pc = "dom_lock"
    /\ RegistryFree(rmu)
    /\ IF Found(domains_, th[t].key)
       THEN /\ th' = [th EXCEPT ![t].pc = AfterDomain(th[t].op),
                                ![t].h = domains_[IdOf(th[t].key)].hid]
            /\ rmu' = 0
       ELSE /\ th' = Goto(t, "dom_create")
            /\ rmu' = t
    /\ UNCHANGED <<domains_, nextHandle, fallback, crashed, last, reg, started, raced>>

\* Registry::domain : lines 303-306
MT_DomCreate(t) ==
    /\ ~crashed
    /\ th[t].pc = "dom_create"
    /\ domains_' = (IdOf(th[t].key) :> NewHandle(th[t].key, nextHandle + 1)) @@ domains_
    /\ nextHandle' = nextHandle + 1
    /\ th' = [th EXCEPT ![t].pc = AfterDomain(th[t].op), ![t].h = nextHandle + 1]
    /\ rmu' = 0
    /\ UNCHANGED <<fallback, crashed, last, reg, started, raced>>

\* DomainStorage::registerType : line 220
MT_RegLock(t) ==
    /\ ~crashed
    /\ th[t].pc = "reg_lock"
    /\ LET id == IdOf(th[t].key)
           s == domains_[id].storage
       IN  /\ CanLock(s)
           /\ domains_' = SetStorage(id, [s EXCEPT !.mu_ = t])
    /\ th' = Goto(t, "reg_check")
    /\ raced' = (raced \/ \E u \in Threads \ {t} :
                              th[u].pc = "reg_lock" /\ th[u].key = th[t].key)
    /\ UNCHANGED <<rmu, nextHandle, fallback, crashed, last, reg, started>>

\* DomainStorage::registerType : line 221, and the find_if of insert
MT_RegCheck(t) ==
    /\ ~crashed
    /\ th[t].pc = "reg_check"
    /\ LET id == IdOf(th[t].key)
           s == domains_[id].storage
       IN  IF s.frozen_
           THEN /\ domains_' = SetStorage(id, [s EXCEPT !.mu_ = 0])
                /\ th' = [th EXCEPT ![t].pc = "return", ![t].ret = BoolRet(FALSE)]
           ELSE /\ domains_' = domains_
                /\ th' = [th EXCEPT ![t].pc = "reg_write",
                                    ![t].it = FindIf(s.builder_,
                                                     keyOfStatic(th[t].key.strat, th[t].type))]
    /\ UNCHANGED <<rmu, nextHandle, fallback, crashed, last, reg, started, raced>>

\* MutableBuilder::insert : lines 185-191, then the lock is released
MT_RegWrite(t) ==
    /\ ~crashed
    /\ th[t].pc = "reg_write"
    /\ LET id == IdOf(th[t].key)
           s == domains_[id].storage
           key == keyOfStatic(th[t].key.strat, th[t].type)
       IN  domains_' = SetStorage(id,
               [s EXCEPT !.builder_ = InsertAt(s.builder_, th[t].it, key, th[t].arg),
                         !.mu_ = 0])
    /\ reg' = [reg EXCEPT ![th[t].key][th[t].type] = th[t].arg]
    /\ th' = [th EXCEPT ![t].pc = "return", ![t].ret = BoolRet(TRUE)]
    /\ UNCHANGED <<rmu, nextHandle, fallback, crashed, last, started, raced>>

\* freeze without `if (frozen_) return`
AlreadyFrozen_Never(s) == FALSE

\* DomainStorage::freeze : `if (frozen_) return;`
AlreadyFrozen(s) == s.frozen_

\* DomainStorage::freeze : lines 226-228
MT_FrzCheck(t) ==
    /\ ~crashed
    /\ th[t].pc = "frz_lock"
    /\ LET id == IdOf(th[t].key)
           s == domains_[id].storage
       IN  /\ CanLock(s)
           /\ IF AlreadyFrozen(s)
              THEN /\ domains_' = SetStorage(id, [s EXCEPT !.mu_ = 0])
                   /\ th' = Goto(t, AfterFreeze(t))
              ELSE /\ domains_' = SetStorage(id, [s EXCEPT !.mu_ = t])
                   /\ th' = Goto(t, "frz_move")
    /\ UNCHANGED <<rmu, nextHandle, fallback, crashed, last, reg, started, raced>>

\* DomainStorage::freeze : line 229
MT_FrzMove(t) ==
    /\ ~crashed
    /\ th[t].pc = "frz_move"
    /\ LET id == IdOf(th[t].key)
           s == domains_[id].storage
       IN  domains_' = SetStorage(id,
               [s EXCEPT !.frozen_map_ = MutableBuilder_freeze(s.builder_),
                         !.builder_ = <<>>])
    /\ th' = Goto(t, "frz_set")
    /\ UNCHANGED <<rmu, nextHandle, fallback, crashed, last, reg, started, raced>>

\* DomainStorage::freeze : lines 230-231
MT_FrzSet(t) ==
    /\ ~crashed
    /\ th[t].pc = "frz_set"
    /\ LET id == IdOf(th[t].key)
           s == domains_[id].storage
       IN  domains_' = SetStorage(id, [s EXCEPT !.frozen_ = TRUE, !.mu_ = 0])
    /\ th' = Goto(t, AfterFreeze(t))
    /\ UNCHANGED <<rmu, nextHandle, fallback, crashed, last, reg, started, raced>>

\* thread u is inside DomainStorage::freeze of the domain id, between taking
\* mu_ and the write of frozen_ (lines 229-230)
Freezing(u, id) ==
    th[u].pc \in {"frz_move", "frz_set"} /\ IdOf(th[u].key) = id

\* thread u is at the move assignment of frozen_map_ (line 229)
MovingMap(u, id) == th[u].pc = "frz_move" /\ IdOf(th[u].key) = id

\* DomainStorage::queryOr : line 235, frozen_ read without the mutex.  While
\* another thread is inside freeze() the read races with the write of line
\* 230 and is undefined: it yields the old value or, the stores of lines 229
\* and 230 not being ordered for this reader, the new one (it = 2).
MT_QRead(t) ==
    /\ ~crashed
    /\ th[t].pc = "q_read"
    /\ LET id == IdOf(th[t].key)
       IN  \/ th' = IF domains_[id].storage.frozen_
                    THEN [th EXCEPT ![t].pc = "q_frozen", ![t].it = 1]
                    ELSE [th EXCEPT ![t].pc = "q_lock", ![t].it = 0]
           \/ /\ \E u \in Threads \ {t} : Freezing(u, id)
              /\ th' = [th EXCEPT ![t].pc = "q_frozen", ![t].it = 2]
    /\ UNCHANGED <<domains_, rmu, nextHandle, fallback, crashed, last, reg, started, raced>>

\* DomainStorage::queryOr : lines 236-238
MT_QFrozen(t) ==
    /\ ~crashed
    /\ th[t].pc = "q_frozen"
    /\ LET s == domains_[IdOf(th[t].key)].storage
           key == keyOfDynamic(th[t].key.strat, th[t].key.base, Obj(th[t].type))
       IN  th' = [th EXCEPT ![t].pc = "return",
                            ![t].ret = FrozenMap_getOr(s.frozen_map_, th[t].arg, key)]
    /\ UNCHANGED <<domains_, rmu, nextHandle, fallback, crashed, last, reg, started, raced>>

\* FrozenMap::getOr (lines 150-161) reads entries_ while another thread
\* move-assigns it (line 229): the read is undefined, and besides the values
\* of MT_QFrozen the build can stop the process
MT_TornRead(t) ==
    /\ ~crashed
    /\ th[t].pc = "q_frozen"
    /\ \E u \in Threads \ {t} : MovingMap(u, IdOf(th[t].key))
    /\ crashed' = TRUE
    /\ UNCHANGED <<domains_, rmu, nextHandle, fallback, last, reg, th, started, raced>>

\* DomainStorage::queryOr : lines 241-246
MT_QBuild(t) ==
    /\ ~crashed
    /\ th[t].pc = "q_lock"
    /\ LET id == IdOf(th[t].key)
           s == domains_[id].storage
           key == keyOfDynamic(th[t].key.strat, th[t].key.base, Obj(th[t].type))
       IN  /\ CanLock(s)
           /\ domains_' = SetStorage(id, [s EXCEPT !.queried_ = TRUE, !.mu_ = 0])
           /\ th' = [th EXCEPT ![t].pc = "return",
                                ![t].ret = MutableBuilder_getOr(s.builder_, th[t].arg, key)]
    /\ UNCHANGED <<rmu, nextHandle, fallback, crashed, last, reg, started, raced>>

\* Registry::freezeAll : line 314
MT_FaLock(t) ==
    /\ ~crashed
    /\ th[t].pc = "fa_lock"
    /\ RegistryFree(rmu)
    /\ rmu' = t
    /\ th' = [th EXCEPT ![t].pc = "fa_next", ![t].todo = DOMAIN domains_]
    /\ UNCHANGED <<domains_, nextHandle, fallback, crashed, last, reg, started, raced>>

\* Registry::freezeAll : lines 315-318, the domains in the map's own order
MT_FaNext(t) ==
    /\ ~crashed
    /\ th[t].pc = "fa_next"
    /\ IF th[t].todo = {}
       THEN /\ rmu' = 0
            /\ th' = Goto(t, "return")
       ELSE /\ rmu' = rmu
            /\ \E id \in th[t].todo :
                  th' = [th EXCEPT ![t].pc = "frz_lock",
                                   ![t].key = domains_[id].type,
                                   ![t].todo = @ \ {id}]
    /\ UNCHANGED <<domains_, nextHandle, fallback, crashed, last, reg, started, raced>>

\* the call returns to its caller
MT_Return(t) ==
    /\ ~crashed
    /\ th[t].pc = "return"
    /\ th' = [th EXCEPT ![t] = IdleThread]
    /\ UNCHANGED <<domains_, rmu, nextHandle, fallback, crashed, last, reg, started, raced>>

NextMT ==
    \E t \in Threads :
        \/ MT_Call(t)
        \/ MT_DomFind(t) \/ MT_DomCreate(t)
        \/ MT_RegLock(t) \/ MT_RegCheck(t) \/ MT_RegWrite(t)
        \/ MT_FrzCheck(t) \/ MT_FrzMove(t) \/ MT_FrzSet(t)
        \/ MT_QRead(t) \/ MT_QFrozen(t) \/ MT_TornRead(t) \/ MT_QBuild(t)
        \/ MT_FaLock(t) \/ MT_FaNext(t)
        \/ MT_Return(t)

SpecMT == Init /\ [][NextMT]_vars

\* the steps of a call thread t is in: what a scheduler that does not starve
\* the thread lets it take.  Starting a call is the caller's choice and is
\* not among them.
MT_Step(t) ==
    \/ MT_DomFind(t) \/ MT_DomCreate(t)
    \/ MT_RegLock(t) \/ MT_RegCheck(t) \/ MT_RegWrite(t)
    \/ MT_FrzCheck(t) \/ MT_FrzMove(t) \/ MT_FrzSet(t)
    \/ MT_QRead(t) \/ MT_QFrozen(t) \/ MT_QBuild(t)
    \/ MT_FaLock(t) \/ MT_FaNext(t)
    \/ MT_Return(t)

\* the threads under a fair scheduler: a thread whose next step stays
\* possible takes it
SpecMTFair == SpecMT /\ \A t \in Threads : WF_vars(MT_Step(t))

---------------------------------------------------------------------------
(* Properties of the calls that run to completion *)

QueryOps == {"getTypeOr", "getType"}

RegisterOps == {"registerType", "DC_registerType"}

\* what queryOr(fb, obj) returns in the current state, obj of concrete type T
QueryView(doms, k, fb, T) ==
    DomainStorage_queryOr(StorageOf(doms, k), k.strat, k.base, fb, Obj(T)).ret

\* the domain of k holds an entry for T
HasEntry(doms, k, T) ==
    /\ Found(doms, k)
    /\ \E i \in 1 .. Len(StorageOf(doms, k).builder_ \o StorageOf(doms, k).frozen_map_) :
          (StorageOf(doms, k).builder_ \o StorageOf(doms, k).frozen_map_)[i].key
              = keyOfStatic(k.strat, T)

\* C1: a type registered with value v while the domain was Building is
\* answered with exactly v by every query made once the domain is Frozen,
\* whatever fallback the query passes.
C1_FrozenQueryReturnsRegistered ==
    /\ (last.op \in QueryOps /\ last.prev = 1 /\ reg[last.key][last.type] # NoVal)
          => last.ret = reg[last.key][last.type]
    /\ \A k \in AllKeys, T \in Types, fb \in EnumValues :
          (IsFrozen(domains_, k) /\ reg[k][T] # NoVal)
              => QueryView(domains_, k, fb, T) = reg[k][T]

\* a query with fallback 1 on a Frozen domain of three entries returned the
\* registered value 2
C1_Witness ==
    /\ last.op = "getTypeOr" /\ last.prev = 1 /\ last.arg = 1 /\ last.ret = 2
    /\ reg[last.key][last.type] = 2
    /\ Len(StorageOf(domains_, last.key).frozen_map_) = 3

\* C2: a registration on a Frozen domain reports false to its caller and
\* changes nothing: every query returns what it returned before the call.
C2_RegistrationAfterFreezeFails ==
    [][(last'.op \in RegisterOps /\ IsFrozen(domains_, last'.key))
         => /\ last'.ret = 0
            /\ domains_' = domains_
            /\ \A T \in Types, fb \in EnumValues :
                  QueryView(domains_', last'.key, fb, T)
                      = QueryView(domains_, last'.key, fb, T)]_vars

\* C3: both registrations of a type in a Building domain report true, and
\* every query from then on, in either phase, returns the value registered
\* last (v2), never the one it replaced.
C3_DuplicateRegistrationLastWins ==
    /\ (last.op = "registerType" /\ ~IsFrozen(domains_, last.key)) => last.ret = 1
    /\ (last.op \in QueryOps /\ reg[last.key][last.type] # NoVal)
          => last.ret = reg[last.key][last.type]
    /\ \A k \in AllKeys, T \in Types, fb \in EnumValues :
          (Found(domains_, k) /\ reg[k][T] # NoVal)
              => QueryView(domains_, k, fb, T) = reg[k][T]

\* the type held 1, its second registration with 2 returned true and
\* reported the duplicate, and a query now returns 2
C3_Witness ==
    /\ last.op = "registerType" /\ last.prev = 1 /\ last.arg = 2 /\ last.ret = 1
    /\ "duplicate" \in last.diag
    /\ QueryView(domains_, last.key, 0, last.type) = 2

\* C4: a query for a type without an entry returns the explicit fallback when
\* the caller passed one, else the configured fallback of the domain when one
\* was set, else Enum{}.
C4_FallbackChain ==
    (last.op \in QueryOps /\ ~HasEntry(domains_, last.key, last.type))
        => last.ret = (IF last.op = "getTypeOr" THEN last.arg
                       ELSE IF fallback[last.key] # NoVal THEN fallback[last.key]
                       ELSE EnumDefault)

\* C5: a domain that is Frozen stays Frozen, whatever call comes next.
C5_FrozenIsForever ==
    [][\A k \in AllKeys : IsFrozen(domains_, k) => IsFrozen(domains_', k)]_vars

\* a registration was refused by a Frozen domain, which is still Frozen
C5_Witness ==
    /\ last.op = "registerType" /\ last.ret = 0
    /\ IsFrozen(domains_, last.key)

\* C6: freeze() on a domain that is already Frozen changes nothing and emits
\* nothing, so two calls leave what one call leaves.
C6_FreezeIdempotent ==
    [][(last'.op = "freeze" /\ IsFrozen(domains_, last'.key))
         => /\ domains_' = domains_
            /\ last'.diag = {}
            /\ \A T \in Types, fb \in EnumValues :
                  QueryView(domains_', last'.key, fb, T)
                      = QueryView(domains_, last'.key, fb, T)]_vars

\* freeze() was called on a Frozen domain of three entries
C6_Witness ==
    /\ last.op = "freeze" /\ last.prev = 1
    /\ Len(StorageOf(domains_, last.key).frozen_map_) = 3

\* C7: a query leaves its domain Frozen, and a registration that follows a
\* query is refused.
C7_FirstQueryFreezes ==
    /\ last.op \in QueryOps => IsFrozen(domains_, last.key)
    /\ (last.op = "registerType" /\ StorageOf(domains_, last.key).queried_)
          => last.ret = 0

\* the entries a caller of triple k finds, none while the domain does not exist
EntriesOf(doms, k) ==
    IF Found(doms, k)
    THEN StorageOf(doms, k).builder_ \o StorageOf(doms, k).frozen_map_
    ELSE <<>>

\* what a query through triple k returns, the domain created on demand
ViewOf(doms, k, fb, T) ==
    IF Found(doms, k) THEN QueryView(doms, k, fb, T) ELSE fb

\* two triples that differ in the enumeration only
DifferInEnumOnly(a, b) == a.base = b.base /\ a.strat = b.strat /\ a.enum # b.enum

\* C8: a registration in the domain of one triple changes neither the entries
\* nor any query result of an existing domain whose triple differs in the
\* enumeration only, also when DomainId::make gives both triples one value.
C8_DomainsShareNoEntries ==
    [][\A a \in CollideKeys, b \in CollideKeys :
          (/\ DifferInEnumOnly(a, b)
           /\ Found(domains_, b) /\ domains_[IdOf(b)].type = b
           /\ last'.op \in RegisterOps /\ last'.key = a)
              => /\ EntriesOf(domains_', b) = EntriesOf(domains_, b)
                 /\ \A T \in Types, fb \in EnumValues :
                       ViewOf(domains_', b, fb, T) = ViewOf(domains_, b, fb, T)]_vars

---------------------------------------------------------------------------
(* Properties of the threads *)

HandleKept(id) ==
    /\ id \in DOMAIN domains_'
    /\ domains_'[id].hid = domains_[id].hid
    /\ domains_'[id].type = domains_[id].type

OneInstance ==
    /\ nextHandle = Cardinality(DOMAIN domains_)
    /\ \A t \in Threads :
          th[t].h # 0 => /\ Found(domains_, th[t].key)
                         /\ domains_[IdOf(th[t].key)].hid = th[t].h
    /\ \A t \in Threads, u \in Threads :
          (th[t].h # 0 /\ th[u].h # 0 /\ th[t].key = th[u].key) => th[t].h = th[u].h

\* C9: concurrent calls of Registry::domain for one triple all get the same
\* instance, which is the one the registry holds; no more handles are ever
\* made than there are triples in the registry; and a handle, once in the
\* registry, is never removed or replaced.
C9_OneInstancePerTriple ==
    [][(\A id \in DOMAIN domains_ : HandleKept(id)) /\ OneInstance']_vars

\* two threads hold the handle of one triple at the same time, a second
\* triple has its own handle, and two handles were made in all
C9_Witness ==
    /\ th[1].h # 0 /\ th[2].h = th[1].h /\ th[1].key = KA /\ th[2].key = KA
    /\ Found(domains_, KB)
    /\ nextHandle = 2

\* C10: once the domain is Frozen, every type that any thread registered is
\* in the frozen map with the value of the last registerType to write under
\* mu_, and a query answered from the frozen map returns that value (the
\* fallback for a type nobody registered).
C10_NoRegistrationLost ==
    /\ \A k \in MainKeys :
          (Found(domains_, k) /\ StorageOf(domains_, k).frozen_) =>
              \A T \in Types :
                  reg[k][T] # NoVal =>
                      FrozenMap_getOr(StorageOf(domains_, k).frozen_map_, NoVal,
                                      keyOfStatic(k.strat, T)) = reg[k][T]
    /\ \A t \in Threads :
          (th[t].pc = "return" /\ th[t].op = "queryOr" /\ th[t].it = 1) =>
              th[t].ret = (IF reg[th[t].key][th[t].type] = NoVal
                           THEN th[t].arg ELSE reg[th[t].key][th[t].type])

\* two registerType calls contended for the mutex, both types are registered,
\* the domain was frozen and a query got a registered value from the frozen map
C10_Witness ==
    /\ raced
    /\ \A T \in FewTypes : reg[KA][T] # NoVal
    /\ \E t \in Threads :
          /\ th[t].pc = "return" /\ th[t].op = "queryOr" /\ th[t].it = 1
          /\ th[t].key = KA
          /\ th[t].ret = reg[KA][th[t].type]

\* thread u holds the domain mutex inside registerType() or freeze()
Mutating(u, id) ==
    th[u].pc \in {"reg_check", "reg_write", "frz_move", "frz_set"} /\ IdOf(th[u].key) = id

\* thread t is at a read of frozen_ or frozen_map_ made without the mutex
UnlockedRead(t, id) ==
    th[t].pc \in {"q_read", "q_frozen"} /\ IdOf(th[t].key) = id

\* C11: no thread reads frozen_ (or frozen_map_) of a domain without its
\* mutex while another thread holds that mutex inside registerType() or
\* freeze().
C11_NoReadBesideMutation ==
    \A t \in Threads, u \in Threads, id \in DOMAIN domains_ :
        ~(t # u /\ UnlockedRead(t, id) /\ Mutating(u, id))

\* thread t returns from op in this step
Returns(t, op) == th[t].op = op /\ th[t].pc # "return" /\ th'[t].pc = "return"

\* C12: at the step freezeAll() returns every domain of the registry is
\* Frozen, and these are the domains that existed when it was called, no
\* domain being created while a freezeAll holds the registry; a domain created
\* later starts Building with nothing registered or queried, and a
\* registerType on a Building domain writes its value and returns true.
C12_FreezeAllThenNewDomain ==
    [][/\ \A t \in Threads :
             Returns(t, "freezeAll") =>
                 \A id \in DOMAIN domains_ : domains_'[id].storage.frozen_
       /\ (\E t \in Threads : th[t].op = "freezeAll" /\ rmu = t)
              => DOMAIN domains_' = DOMAIN domains_
       /\ \A id \in DOMAIN domains_' \ DOMAIN domains_ :
              domains_'[id].storage = NewStorage
       /\ \A t \in Threads :
             (Returns(t, "registerType") /\ ~StorageOf(domains_, th[t].key).frozen_)
                 => /\ th'[t].ret = 1
                    /\ MutableBuilder_getOr(StorageOf(domains_', th[t].key).builder_, NoVal,
                                            keyOfStatic(th[t].key.strat, th[t].type))
                           = th[t].arg]_vars

\* freezeAll() has returned with the domain of KB Frozen, and the domain of KA,
\* created after it, is Building and has accepted a registration
C12_Witness ==
    \E t \in Threads, u \in Threads :
        /\ th[t].op = "freezeAll" /\ th[t].pc = "return"
        /\ IsFrozen(domains_, KB)
        /\ Found(domains_, KA) /\ ~IsFrozen(domains_, KA)
        /\ domains_[IdOf(KA)].hid = 2
        /\ th[u].op = "registerType" /\ th[u].pc = "return" /\ th[u].ret = 1
        /\ Len(StorageOf(domains_, KA).builder_) = 1

---------------------------------------------------------------------------
(* Properties of the lookups *)

C14_StaticKeyIsDynamicKey ==
    last.op \in QueryOps =>
        /\ keyOfDynamic(last.key.strat, last.key.base, Obj(last.type))
               = keyOfStatic(last.key.strat, last.type)
        /\ reg[last.key][last.type] # NoVal => last.ret = reg[last.key][last.type]

\* the tokens looked up: the key of every type over Shape, of Shape itself
\* (never registered), and the values next to each of them
Tokens ==
    UNION {{keyOfStatic("RTTIKeyStrategy", T) - 1, keyOfStatic("RTTIKeyStrategy", T),
            keyOfStatic("RTTIKeyStrategy", T) + 1} : T \in Types \cup {"Shape"}}

\* the binary search of FrozenMap::getOr finds an entry for tok
SearchFinds(entries, tok) ==
    LET it == LowerBound(entries, tok, 1, Len(entries))
    IN  it <= Len(entries) /\ entries[it].key = tok

\* C15: at the step a domain turns Frozen, the frozen map answers getOr(f, k)
\* for every token k and fallback f as the builder answered it just before,
\* its entries are sorted by token, and the binary search finds a token
\* exactly when the builder held it.
C15_FreezePreservesMapping ==
    [][\A k \in AllKeys :
          (Found(domains_, k) /\ ~IsFrozen(domains_, k) /\ IsFrozen(domains_', k)) =>
              LET b == StorageOf(domains_, k).builder_
                  f == StorageOf(domains_', k).frozen_map_
              IN  /\ \A tok \in Tokens, fb \in EnumValues :
                         FrozenMap_getOr(f, fb, tok) = MutableBuilder_getOr(b, fb, tok)
                  /\ \A i \in 1 .. (Len(f) - 1) : f[i].key < f[i + 1].key
                  /\ \A tok \in Tokens :
                         SearchFinds(f, tok) = (\E i \in 1 .. Len(b) : b[i].key = tok)]_vars

\* freeze() has just turned a domain of three entries Frozen
C15_Witness ==
    /\ last.op = "freeze" /\ last.prev = 0
    /\ Len(StorageOf(domains_, last.key).frozen_map_) = 3
    /\ StorageOf(domains_, last.key).builder_ = <<>>

\* what the history says a lookup for thread t's type returns now
Registered(t) ==
    IF reg[th[t].key][th[t].type] = NoVal
    THEN th[t].arg
    ELSE reg[th[t].key][th[t].type]

\* C16: a query that found its domain Building does its lookup under the
\* mutex, returns the value registered last for the object's type at that
\* moment (the fallback if none) and leaves the queried flag set.
C16_BuildingQueryReturnsRegistered ==
    [][\A t \in Threads :
          (th[t].op = "queryOr" /\ th[t].pc = "q_lock" /\ th'[t].pc = "return") =>
              /\ StorageOf(domains_, th[t].key).mu_ = 0
              /\ th'[t].ret = Registered(t)
              /\ StorageOf(domains_', th[t].key).queried_]_vars

\* thread t is in a query of the domain id, at the read of frozen_ or at the
\* lookup in the frozen map
FrozenReader(t, id) ==
    th[t].op = "queryOr" /\ IdOf(th[t].key) = id /\ th[t].pc \in {"q_read", "q_frozen"}

\* C17: no step changes the frozen map of a Frozen domain or takes the domain
\* out of Frozen; a query of a Frozen domain goes from the read of frozen_ to
\* the lookup and to its return without touching the mutex, and its lookup can
\* always be taken, whoever holds the mutex.
C17_FrozenMapImmutableLockFree ==
    /\ [](\A t \in Threads :
             (~crashed /\ th[t].pc = "q_frozen") => ENABLED MT_QFrozen(t))
    /\ [][\A id \in DOMAIN domains_ :
             domains_[id].storage.frozen_ =>
                 /\ domains_'[id].storage.frozen_
                 /\ domains_'[id].storage.frozen_map_ = domains_[id].storage.frozen_map_
                 /\ \A t \in Threads :
                       (FrozenReader(t, id) /\ th'[t] # th[t]) =>
                           /\ th'[t].pc \in {"q_frozen", "return"}
                           /\ domains_' = domains_]_vars

\* a query is at its lookup in the frozen map of a domain of one entry while
\* a registerType of another thread holds the mutex of that domain
C17_Witness ==
    \E t \in Threads, u \in Threads :
        /\ th[t].pc = "q_frozen" /\ th[t].it = 1 /\ th[t].key = KA
        /\ th[u].pc = "reg_check" /\ th[u].key = KA
        /\ StorageOf(domains_, KA).mu_ = u
        /\ IsFrozen(domains_, KA)
        /\ Len(StorageOf(domains_, KA).frozen_map_) = 1

---------------------------------------------------------------------------
(* Properties of the diagnostics *)

\* the queried-while-building flag of the domain of k, unset while the domain
\* does not exist
WasQueried(doms, k) == Found(doms, k) /\ StorageOf(doms, k).queried_

\* C18: the queried flag of a domain is set by the queries made while it is
\* Building and by nothing else; freeze() emits the freeze-after-query
\* diagnostic exactly when it turns a Building domain with that flag Frozen
\* (freezeAll: when it does so for some domain), never on a Frozen domain or
\* one never queried; and the domain is Frozen when freeze() returns.
C18_FreezeAfterQueryDiagnostic ==
    [][/\ \A k \in MainKeys :
             WasQueried(domains_', k) =
                 (\/ WasQueried(domains_, k)
                  \/ (last'.op \in QueryOps /\ last'.key = k /\ ~IsFrozen(domains_, k)))
       /\ last'.op = "freeze" =>
             /\ ("freezeAfterQuery" \in last'.diag)
                    = (~IsFrozen(domains_, last'.key) /\ WasQueried(domains_, last'.key))
             /\ IsFrozen(domains_', last'.key)
       /\ last'.op = "freezeAll" =>
             ("freezeAfterQuery" \in last'.diag)
                 = (\E k \in MainKeys : Found(domains_, k) /\ ~IsFrozen(domains_, k)
                                          /\ WasQueried(domains_, k))]_vars

\* freeze() turned a domain that had been queried while Building Frozen and
\* emitted the diagnostic
C18_Witness ==
    /\ last.op = "freeze" /\ last.prev = 0
    /\ "freezeAfterQuery" \in last.diag
    /\ IsFrozen(domains_, last.key)
    /\ WasQueried(domains_, last.key)

\* the fallback the last query passed to queryOr
FallbackOf(call) == IF call.op = "getTypeOr" THEN call.arg ELSE EnumDefault

\* C19: in either phase a query emits the miss diagnostic exactly when the
\* value it returns is its fallback argument: for every type without a
\* registration, and for a registered type whose value is the fallback;
\* the value returned is the registered one, or the fallback, either way.
C19_MissDiagnostic ==
    last.op \in QueryOps =>
        /\ ("miss" \in last.diag) = (last.ret = FallbackOf(last))
        /\ last.diag \subseteq {"miss"}
        /\ reg[last.key][last.type] = NoVal
               => (last.ret = FallbackOf(last) /\ "miss" \in last.diag)
        /\ reg[last.key][last.type] # NoVal => last.ret = reg[last.key][last.type]

\* a query on a Frozen domain returned the registered value 2, which was also
\* its fallback argument, and reported a miss
C19_Witness ==
    /\ last.op = "getTypeOr" /\ last.prev = 1 /\ last.arg = 2 /\ last.ret = 2
    /\ reg[last.key][last.type] = 2
    /\ "miss" \in last.diag

---------------------------------------------------------------------------
(* Frame of the queries *)

\* the storage with the queried flag put back to what it was in `old`
SameButQueried(new, old) == [new EXCEPT !.queried_ = old.queried_] = old

\* C20: a query changes no entry and no phase of any domain: the builder and
\* the frozen map of the domain it queries and of every other domain are what
\* they were, a domain other than the queried one is untouched, and in the
\* queried one nothing but the queried flag differs.
C20_QueryChangesNoEntry ==
    [][last'.op \in QueryOps =>
          \A k \in PairKeys :
              /\ EntriesOf(domains_', k) = EntriesOf(domains_, k)
              /\ IsFrozen(domains_', k) = IsFrozen(domains_, k)
              /\ Found(domains_, k) =>
                    /\ SameButQueried(StorageOf(domains_', k), StorageOf(domains_, k))
                    /\ k # last'.key => domains_'[IdOf(k)] = domains_[IdOf(k)]]_vars

\* a query of a type without an entry ran on a Building domain that holds
\* an entry, a second domain holding an entry too
C20_Witness ==
    /\ last.op \in QueryOps /\ last.prev = 0 /\ last.key = KA /\ last.type = "Square"
    /\ Len(StorageOf(domains_, KA).builder_) = 1
    /\ WasQueried(domains_, KA)
    /\ Found(domains_, KB) /\ Len(EntriesOf(domains_, KB)) = 1

---------------------------------------------------------------------------
(* Lock order and termination of the calls *)

\* thread t holds the mutex of some DomainStorage
HoldsDomainMutex(t) == \E id \in DOMAIN domains_ : domains_[id].storage.mu_ = t

\* thread t is at std::scoped_lock lk(mu_) of Registry (lines 300, 314)
AtRegistryLock(t) == th[t].pc \in {"dom_lock", "fa_lock"}

\* thread t is at std::scoped_lock lk(mu_) of a DomainStorage (lines 220, 226, 241)
AtDomainLock(t) == th[t].pc \in {"reg_lock", "frz_lock", "q_lock"}

\* the order of the locks: a thread that is about to take the registry mutex
\* or a domain mutex holds no domain mutex, and the only thread that takes a
\* domain mutex while it holds the registry mutex is inside freezeAll
LockOrder ==
    \A t \in Threads :
        /\ (AtRegistryLock(t) \/ AtDomainLock(t)) => ~HoldsDomainMutex(t)
        /\ AtRegistryLock(t) => rmu # t
        /\ (AtDomainLock(t) /\ rmu = t) => th[t].op = "freezeAll"

\* while the process runs, some thread inside a call can take a step
NoDeadlock ==
    (~crashed /\ \E t \in Threads : th[t].pc # "idle") =>
        \E t \in Threads : ENABLED MT_Step(t)

\* every started call returns unless the process was stopped
ReturnsUnlessStopped ==
    \A t \in Threads : (th[t].pc # "idle") ~> (th[t].pc = "idle" \/ crashed)

=============================================================================
